---- MODULE Spec2Model ----
(***************************************************************************)
(* A model of src/data_context.py: the DataContext singleton, its keyed    *)
(* store (set / get / deinit) and its two query helpers (find / filter)    *)
(* with the shared condition normalisation and the _match rule.            *)
(*                                                                         *)
(* Python values are encoded as records of one shape, so that Python's ==  *)
(* is TLA+ equality:                                                       *)
(*   [kind, v, items]   kind is the Python type, v the payload of a        *)
(*                      scalar, items the elements of a list.              *)
(* A row (one dict of a record list) is a function from field names to     *)
(* such values, with the marker Absent for a field the dict does not hold. *)
(***************************************************************************)
EXTENDS Integers, Sequences, FiniteSets, TLC

VARIABLES
    _instance,  \* DataContext._instance: 0 is None, else the id of the object
    objects,    \* the DataContext objects ever allocated: objects[id] is its _data
    handles,    \* what each construction DataContext() returned, in order
    lastSet,    \* history: per key, the value of the last set since the last deinit
    call        \* the last call: its arguments and what it returned or raised

vars == <<_instance, objects, handles, lastSet, call>>

----------------------------------------------------------------------------
(* Bounds of the model. *)

\* longest record list that is stored or scanned
MaxRecords == 2
\* longest valueSpec sequence a caller passes
MaxLen == 2
\* how many times DataContext() is constructed
MaxHandles == 2

----------------------------------------------------------------------------
(* Python values. *)

Scalar(kind, v) == [kind |-> kind, v |-> v, items |-> <<>>]
List(items) == [kind |-> "list", v |-> "", items |-> items]

None == Scalar("NoneType", "None")
Int1 == Scalar("int", "1")
StrX == Scalar("str", "x")
BytesX == Scalar("bytes", "x")
EmptyDict == Scalar("dict", "{}")
\* not a Python value: the state of a field that a row does not hold
Absent == Scalar("absent", "")

\* the field names of the rows
Fields == {"a", "b"}
Str(f) == Scalar("str", f)

\* the sequences over S of length at most n
SeqUpTo(S, n) == UNION {[1..m -> S] : m \in 0..n}

\* what a row may hold in a field
FieldVals(f) == IF f = "a" THEN {Absent, None, Int1} ELSE {Absent, Int1}
Rows == {r \in [Fields -> {Absent, None, Int1}] : \A f \in Fields : r[f] \in FieldVals(f)}
EmptyRow == [f \in Fields |-> Absent]
RecordLists == SeqUpTo(Rows, MaxRecords)

\* fieldSpec: one field name, or a sequence of distinct field names
KeySeqs == {ks \in SeqUpTo(Fields, Cardinality(Fields)) : \A i, j \in 1..Len(ks) : ks[i] = ks[j] => i = j}
KeySpecs == {Str(f) : f \in Fields} \cup {List([i \in 1..Len(ks) |-> Str(ks[i])]) : ks \in KeySeqs}

\* valueSpec: a scalar, a string, bytes, a mapping, or a sequence whose
\* elements are scalars or collections of scalars
CondScalars == {None, Int1}
CondElems == CondScalars \cup {List(<<Int1, None>>)}
ValueSpecs == CondScalars \cup {StrX, BytesX, EmptyDict} \cup {List(s) : s \in SeqUpTo(CondElems, MaxLen)}

\* the default argument of get and find: Python's None, or a caller's own value
Default == Scalar("str", "dflt")
Defaults == {None, Default}

----------------------------------------------------------------------------
(* Top-level objects: what the store holds and what a call returns.  One   *)
(* shape again: a plain value, one row (a dict), or a list of rows.        *)

ValObj(v) == [kind |-> "val", val |-> v, row |-> EmptyRow, rows |-> <<>>]
RowObj(r) == [kind |-> "dict", val |-> None, row |-> r, rows |-> <<>>]
ListObj(rs) == [kind |-> "list", val |-> None, row |-> EmptyRow, rows |-> rs]

\* the state of a key that the dict _data does not hold
NoEntry == [kind |-> "absent", val |-> None, row |-> EmptyRow, rows |-> <<>>]

\* the keys of the store
Keys == {"data_A", "data_B"}
EmptyData == [k \in Keys |-> NoEntry]

\* what set stores in the system model: record lists, or a single row
StoreValues ==
    { ListObj(<<>>),
      ListObj(<<[a |-> Int1, b |-> Absent]>>),
      ListObj(<<[a |-> None, b |-> Int1], [a |-> Int1, b |-> Int1]>>),
      RowObj([a |-> Int1, b |-> Int1]) }

\* the conditions find and filter are called with in the system model
SampleConds ==
    { <<Str("a"), Int1>>,
      <<Str("a"), List(<<Int1, None>>)>>,
      <<List(<<Str("a"), Str("b")>>), List(<<None, Int1>>)>>,
      <<List(<<Str("a"), Str("b")>>), List(<<Int1>>)>>,
      <<List(<<Str("a")>>), StrX>>,
      <<List(<<>>), List(<<>>)>> }

----------------------------------------------------------------------------
(* The pure parts of the code. *)

\* isinstance(x, Iterable) and not isinstance(x, (str, bytes, dict))
IsIterable(x) == x.kind \in {"list", "str", "bytes", "dict"}
IsCollection(x) == IsIterable(x) /\ x.kind \notin {"str", "bytes", "dict"}

\* val in cond, for a list cond
Contains(cond, val) == \E i \in 1..Len(cond.items) : cond.items[i] = val

\* a match rule that always compares for equality
_match_eq(val, cond) == val = cond

_match(val, cond) == IF IsCollection(cond) THEN Contains(cond, val) ELSE val = cond

\* a lookup that gives the missing field its own marker
row_get_marker(r, k) == IF k.kind = "str" /\ k.v \in Fields THEN r[k.v] ELSE Absent

\* r.get(k): the field's value, None for a field the row does not hold
row_get(r, k) == IF k.kind = "str" /\ k.v \in Fields /\ r[k.v] # Absent THEN r[k.v] ELSE None

Min(m, n) == IF m <= n THEN m ELSE n

\* a condition test that asks for some pair to match
all_match_any(r, key_seq, value_seq) ==
    \E i \in 1..Min(Len(key_seq), Len(value_seq)) : _match(row_get(r, key_seq[i]), value_seq[i])

\* all(self._match(r.get(k), v) for k, v in zip(key_seq, value_seq))
all_match(r, key_seq, value_seq) ==
    \A i \in 1..Min(Len(key_seq), Len(value_seq)) : _match(row_get(r, key_seq[i]), value_seq[i])

\* a normalisation that leaves the length check to zip
align_zip(keys, values) ==
    IF IsCollection(keys)
    THEN IF ~IsCollection(values)
         THEN [status |-> "ValueError", key_seq |-> <<>>, value_seq |-> <<>>]
         ELSE [status |-> "ok", key_seq |-> keys.items, value_seq |-> values.items]
    ELSE [status |-> "ok", key_seq |-> <<keys>>, value_seq |-> <<values>>]

\* the normalisation of keys and values into key_seq and value_seq, or the
\* ValueError it raises
align(keys, values) ==
    IF IsCollection(keys)
    THEN IF ~IsCollection(values)
         THEN [status |-> "ValueError", key_seq |-> <<>>, value_seq |-> <<>>]
         ELSE IF Len(keys.items) # Len(values.items)
              THEN [status |-> "ValueError", key_seq |-> <<>>, value_seq |-> <<>>]
              ELSE [status |-> "ok", key_seq |-> keys.items, value_seq |-> values.items]
    ELSE [status |-> "ok", key_seq |-> <<keys>>, value_seq |-> <<values>>]

\* a scan that keeps the last match
RECURSIVE next_match_last(_, _, _, _)
next_match_last(records, key_seq, value_seq, default) ==
    IF records = <<>> THEN ValObj(default)
    ELSE IF all_match(records[Len(records)], key_seq, value_seq) THEN RowObj(records[Len(records)])
    ELSE next_match_last(SubSeq(records, 1, Len(records) - 1), key_seq, value_seq, default)

\* next((r for r in records if ...), default)
RECURSIVE next_match(_, _, _, _)
next_match(records, key_seq, value_seq, default) ==
    IF records = <<>> THEN ValObj(default)
    ELSE IF all_match(Head(records), key_seq, value_seq) THEN RowObj(Head(records))
    ELSE next_match(Tail(records), key_seq, value_seq, default)

\* [r for r in records if ...]
RECURSIVE all_matches(_, _, _)
all_matches(records, key_seq, value_seq) ==
    IF records = <<>> THEN <<>>
    ELSE (IF all_match(Head(records), key_seq, value_seq) THEN <<Head(records)>> ELSE <<>>)
         \o all_matches(Tail(records), key_seq, value_seq)

\* a call that raised returns nothing
Nothing == [kind |-> "nothing", val |-> None, row |-> EmptyRow, rows |-> <<>>]

find(records, keys, values, default) ==
    LET seqs == align(keys, values)
    IN  IF seqs.status # "ok" THEN [status |-> seqs.status, value |-> Nothing]
        ELSE [status |-> "ok", value |-> next_match(records, seqs.key_seq, seqs.value_seq, default)]

\* a filter that returns None when nothing matches
filter_or_none(records, keys, values) ==
    LET seqs == align(keys, values)
        rows == all_matches(records, seqs.key_seq, seqs.value_seq)
    IN  IF seqs.status # "ok" THEN [status |-> seqs.status, value |-> Nothing]
        ELSE [status |-> "ok", value |-> IF rows = <<>> THEN ValObj(None) ELSE ListObj(rows)]

filter(records, keys, values) ==
    LET seqs == align(keys, values)
    IN  IF seqs.status # "ok" THEN [status |-> seqs.status, value |-> Nothing]
        ELSE [status |-> "ok", value |-> ListObj(all_matches(records, seqs.key_seq, seqs.value_seq))]

\* self._data.get(key, default)
dict_get(data, key, default) == IF data[key] = NoEntry THEN default ELSE data[key]

\* a set that keeps the value a key already has
dict_setdefault(data, key, value) == IF data[key] = NoEntry THEN [data EXCEPT ![key] = value] ELSE data

\* self._data[key] = value
dict_set(data, key, value) == [data EXCEPT ![key] = value]

\* a clear that removes one entry only
dict_clear_one(data) == [data EXCEPT !["data_A"] = NoEntry]

\* self._data.clear()
dict_clear(data) == [k \in DOMAIN data |-> NoEntry]

----------------------------------------------------------------------------
(* The calls.  self is the object a handle refers to; every call leaves in *)
(* `call` its arguments and its outcome.                                   *)

\* before is the _data of self when the call began
Call(op, before, key, keys, values, default, records, status, result) ==
    [op |-> op, before |-> before, key |-> key, keys |-> keys, values |-> values,
     default |-> default, records |-> records, status |-> status, result |-> result]

NoCall == Call("none", EmptyData, "", None, None, None, <<>>, "ok", Nothing)

\* a construction that allocates a new object every time
New_always ==
    /\ Len(handles) < MaxHandles
    /\ objects' = Append(objects, EmptyData)
    /\ _instance' = Len(objects) + 1
    /\ handles' = Append(handles, _instance')
    /\ call' = Call("new", IF _instance = 0 THEN EmptyData ELSE objects[_instance], "", None, None, None, <<>>, "ok", Nothing)
    /\ UNCHANGED lastSet

\* DataContext(): __new__ allocates the object and its empty _data only
\* while _instance is None, and returns _instance
New ==
    /\ Len(handles) < MaxHandles
    /\ IF _instance = 0
       THEN /\ objects' = Append(objects, EmptyData)
            /\ _instance' = Len(objects) + 1
       ELSE UNCHANGED <<objects, _instance>>
    /\ handles' = Append(handles, _instance')
    /\ call' = Call("new", IF _instance = 0 THEN EmptyData ELSE objects[_instance], "", None, None, None, <<>>, "ok", Nothing)
    /\ UNCHANGED lastSet

set(h, key, value) ==
    LET self == handles[h]
    IN  /\ objects' = [objects EXCEPT ![self] = dict_set(@, key, value)]
        /\ lastSet' = [lastSet EXCEPT ![key] = value]
        /\ call' = Call("set", objects[self], key, None, None, None, <<>>, "ok", value)
        /\ UNCHANGED <<_instance, handles>>

get(h, key, default) ==
    LET self == handles[h]
    IN  /\ call' = Call("get", objects[self], key, None, None, default, <<>>, "ok",
                        dict_get(objects[self], key, ValObj(default)))
        /\ UNCHANGED <<_instance, objects, handles, lastSet>>

deinit(h) ==
    LET self == handles[h]
    IN  /\ objects' = [objects EXCEPT ![self] = dict_clear(@)]
        /\ lastSet' = EmptyData
        /\ call' = Call("deinit", objects[self], "", None, None, None, <<>>, "ok", Nothing)
        /\ UNCHANGED <<_instance, handles>>

\* a find that takes the rows it has scanned out of the list
Find_consuming(h, key, keys, values, default) ==
    LET self == handles[h]
        records == dict_get(objects[self], key, ListObj(<<>>))
        out == find(records.rows, keys, values, default)
    IN  /\ records.kind = "list"
        /\ call' = Call("find", objects[self], key, keys, values, default, records.rows, out.status, out.value)
        /\ objects' = [objects EXCEPT ![self] = IF records.rows = <<>> THEN @ ELSE dict_set(@, key, ListObj(Tail(records.rows)))]
        /\ UNCHANGED <<_instance, handles, lastSet>>

\* ctx.find(ctx.get(key, []), keys, values, default)
Find(h, key, keys, values, default) ==
    LET self == handles[h]
        records == dict_get(objects[self], key, ListObj(<<>>))
        out == find(records.rows, keys, values, default)
    IN  /\ records.kind = "list"
        /\ call' = Call("find", objects[self], key, keys, values, default, records.rows, out.status, out.value)
        /\ UNCHANGED <<_instance, objects, handles, lastSet>>

\* ctx.filter(ctx.get(key, []), keys, values)
Filter(h, key, keys, values) ==
    LET self == handles[h]
        records == dict_get(objects[self], key, ListObj(<<>>))
        out == filter(records.rows, keys, values)
    IN  /\ records.kind = "list"
        /\ call' = Call("filter", objects[self], key, keys, values, None, records.rows, out.status, out.value)
        /\ UNCHANGED <<_instance, objects, handles, lastSet>>

----------------------------------------------------------------------------
(* The system: any number of constructions, and set, get, deinit, find and *)
(* filter through any handle.                                              *)

Init ==
    /\ _instance = 0
    /\ objects = <<>>
    /\ handles = <<>>
    /\ lastSet = EmptyData
    /\ call = NoCall

DoSet == \E h \in DOMAIN handles, key \in Keys, value \in StoreValues : set(h, key, value)
DoGet == \E h \in DOMAIN handles, key \in Keys, default \in Defaults : get(h, key, default)
DoDeinit == \E h \in DOMAIN handles : deinit(h)
DoFind == \E h \in DOMAIN handles, key \in Keys, c \in SampleConds, default \in Defaults : Find(h, key, c[1], c[2], default)
DoFilter == \E h \in DOMAIN handles, key \in Keys, c \in SampleConds : Filter(h, key, c[1], c[2])

Next == New \/ DoSet \/ DoGet \/ DoDeinit \/ DoFind \/ DoFilter

Spec == Init /\ [][Next]_vars

----------------------------------------------------------------------------
(* The queries: one context holding any record list under data_A, and one  *)
(* call of find or filter on it with any fieldSpec, valueSpec and default. *)
(* The initial state holds the arguments the caller is about to pass.      *)

InitQuery ==
    /\ _instance = 1
    /\ handles = <<1>>
    /\ \E records \in RecordLists :
          /\ objects = <<dict_set(EmptyData, "data_A", ListObj(records))>>
          /\ lastSet = dict_set(EmptyData, "data_A", ListObj(records))
    /\ \E keys \in KeySpecs, values \in ValueSpecs, default \in Defaults :
          call = Call("args", objects[1], "data_A", keys, values, default, <<>>, "ok", Nothing)

QueryFind == call.op = "args" /\ Find(1, call.key, call.keys, call.values, call.default)
QueryFilter == call.op = "args" /\ Filter(1, call.key, call.keys, call.values)

NextQuery == QueryFind \/ QueryFilter

SpecQuery == InitQuery /\ [][NextQuery]_vars

----------------------------------------------------------------------------
(* What the claims speak of, stated without the code's own helpers.        *)

\* the _data that every handle shares
TheData == objects[_instance]

\* a condition is well formed when fieldSpec is one field name, or fieldSpec
\* and valueSpec are sequences of equal length
WellFormed(keys, values) ==
    \/ keys.kind = "str"
    \/ keys.kind = "list" /\ values.kind = "list" /\ Len(keys.items) = Len(values.items)

\* the (field, value) pairs of a well-formed condition
CondPairs(keys, values) ==
    IF keys.kind = "str" THEN <<[field |-> keys.v, value |-> values]>>
    ELSE [i \in 1..Len(keys.items) |-> [field |-> keys.items[i].v, value |-> values.items[i]]]

\* the value a row gives for a field: Python's None for a field it lacks
FieldValue(row, f) == IF row[f] = Absent THEN None ELSE row[f]

\* membership when the condition value is a collection, equality otherwise
PairHolds(row, p) ==
    IF p.value.kind = "list"
    THEN FieldValue(row, p.field) \in {p.value.items[j] : j \in DOMAIN p.value.items}
    ELSE FieldValue(row, p.field) = p.value

Satisfies(row, keys, values) ==
    \A j \in DOMAIN CondPairs(keys, values) : PairHolds(row, CondPairs(keys, values)[j])

\* the indexes of the scanned rows that satisfy the condition of the call
Matching == {i \in 1..Len(call.records) : Satisfies(call.records[i], call.keys, call.values)}

\* the j-th smallest element of a set of numbers
Nth(S, j) == CHOOSE i \in S : Cardinality({m \in S : m < i}) = j - 1

IsQuery == call.op \in {"find", "filter"}

----------------------------------------------------------------------------
(* The claims. *)

\* C1: get(k, d) returns the value of the most recent set(k, v) since the
\* last deinit, whatever was set under other keys, and d when no set(k, .)
\* has happened since the last deinit.
C1_GetReturnsLastSet ==
    call.op = "get" =>
        call.result = IF lastSet[call.key] = NoEntry THEN ValObj(call.default) ELSE lastSet[call.key]

\* a get of a key that was set, with another key holding another value
C1_Witness ==
    /\ call.op = "get"
    /\ call.default = Default
    /\ lastSet[call.key] # NoEntry
    /\ call.result = lastSet[call.key]
    /\ \E k \in Keys : k # call.key /\ lastSet[k] \notin {NoEntry, lastSet[call.key]}

\* C2: right after deinit the store holds no key, so get(k, d) returns d for
\* every k and d; and a deinit that follows a deinit leaves the store as it is.
C2_DeinitEmptiesStore ==
    /\ [](call.op = "deinit" =>
            /\ TheData = EmptyData
            /\ \A k \in Keys, d \in Defaults : dict_get(TheData, k, ValObj(d)) = ValObj(d))
    /\ [][call.op = "deinit" /\ call'.op = "deinit" => objects' = objects]_vars

\* a deinit of a store that held a value under every key
C2_Witness ==
    /\ call.op = "deinit"
    /\ \A k \in Keys : call.before[k] # NoEntry
    /\ TheData = EmptyData

\* C3: there is at most one DataContext object and every construction
\* returned it; a construction after the first leaves the store as it is.
C3_Singleton ==
    /\ [](/\ Len(objects) <= 1
          /\ \A i \in DOMAIN handles : handles[i] = _instance /\ _instance \in DOMAIN objects)
    /\ [][call'.op = "new" /\ handles # <<>> => objects' = objects /\ _instance' = _instance]_vars

\* a second construction while the store holds entries
C3_Witness ==
    /\ call.op = "new"
    /\ Len(handles) >= 2
    /\ handles[1] = handles[2]
    /\ \A k \in Keys : TheData[k] # NoEntry

\* C4: for a well-formed condition, find returns the row at the smallest
\* index that satisfies every pair of the condition, and default when no row
\* does.
C4_FindReturnsEarliestMatch ==
    call.op = "find" /\ WellFormed(call.keys, call.values) =>
        /\ call.status = "ok"
        /\ IF Matching = {} THEN call.result = ValObj(call.default)
           ELSE \E i \in Matching :
                   /\ \A j \in Matching : i <= j
                   /\ call.result = RowObj(call.records[i])

\* a find on two fields that two different rows satisfy
C4_Witness ==
    /\ call.op = "find"
    /\ call.keys.kind = "list" /\ Len(call.keys.items) = 2
    /\ WellFormed(call.keys, call.values)
    /\ Matching = {1, 2}
    /\ call.records[1] # call.records[2]
    /\ call.result = RowObj(call.records[1])

\* C5: for a well-formed condition, filter returns the list of exactly the
\* rows that satisfy every pair of the condition, in their order, each pair
\* being a membership test for a collection value and an equality test
\* otherwise; the result is a list also when nothing matches.
C5_FilterReturnsMatchingSubsequence ==
    call.op = "filter" /\ WellFormed(call.keys, call.values) =>
        /\ call.status = "ok"
        /\ call.result.kind = "list"
        /\ Len(call.result.rows) = Cardinality(Matching)
        /\ \A j \in 1..Cardinality(Matching) : call.result.rows[j] = call.records[Nth(Matching, j)]

\* a filter by membership that drops the first row and keeps the second
C5_Witness ==
    /\ call.op = "filter"
    /\ call.keys.kind = "str"
    /\ call.values.kind = "list"
    /\ Len(call.records) = 2
    /\ Matching = {2}
    /\ call.result = ListObj(<<call.records[2]>>)

\* C6: with a sequence of field names, find and filter raise the validation
\* error and return nothing when valueSpec is a string, a mapping or not
\* iterable, or a sequence of another length; with a single field name they
\* never raise it.
C6_ValidationErrors ==
    IsQuery =>
        /\ ( /\ call.keys.kind = "list"
             /\ \/ call.values.kind \in {"str", "dict", "NoneType", "int"}
                \/ call.values.kind = "list" /\ Len(call.values.items) # Len(call.keys.items)
             => call.status = "ValueError" /\ call.result = Nothing )
        /\ (call.keys.kind = "str" => call.status = "ok")

\* a find over rows with two field names and one value
C6_Witness ==
    /\ call.op = "find"
    /\ call.records # <<>>
    /\ call.keys.kind = "list" /\ Len(call.keys.items) = 2
    /\ call.values.kind = "list" /\ Len(call.values.items) = 1
    /\ call.status = "ValueError"

\* C7 as stated: filter over an empty record list returns an empty list for
\* every fieldSpec and valueSpec.
C7_EmptyRecordsAnyCondition ==
    call.op = "filter" /\ call.records = <<>> => call.status = "ok" /\ call.result = ListObj(<<>>)

\* C7 as amended: filter over an empty record list returns an empty list for
\* every well-formed condition, and raises the validation error for the others.
C7_EmptyRecordsWellFormed ==
    call.op = "filter" /\ call.records = <<>> =>
        IF WellFormed(call.keys, call.values)
        THEN call.status = "ok" /\ call.result = ListObj(<<>>)
        ELSE call.status = "ValueError" /\ call.result = Nothing

\* a filter over no rows on two fields
C7_Witness ==
    /\ call.op = "filter"
    /\ call.records = <<>>
    /\ call.keys.kind = "list" /\ Len(call.keys.items) = 2
    /\ WellFormed(call.keys, call.values)
    /\ call.result = ListObj(<<>>)

\* C8: a find or a filter, returning or raising, leaves the store as it was,
\* and with it the rows it scanned.
C8_QueriesArePureReads ==
    [][call'.op \in {"find", "filter"} =>
            /\ objects' = objects
            /\ dict_get(objects'[_instance'], call'.key, ListObj(<<>>)) = ListObj(call'.records)]_vars

\* a find that raised over a stored record list
C8_Witness ==
    /\ call.op = "find"
    /\ call.status = "ValueError"
    /\ call.records # <<>>
    /\ TheData = call.before
    /\ \A k \in Keys : TheData[k] # NoEntry

\* whether an expected value is None, or a collection that holds None
AdmitsNone(value) ==
    \/ value = None
    \/ value.kind = "list" /\ \E j \in DOMAIN value.items : value.items[j] = None

\* the rows the call returned
Returned ==
    IF call.result.kind = "dict" THEN {call.result.row}
    ELSE {call.result.rows[i] : i \in DOMAIN call.result.rows}

\* C9 as stated: a row that lacks a field of the condition is never returned
\* by find nor kept by filter.
C9_MissingFieldNeverMatches ==
    IsQuery /\ call.status = "ok" =>
        \A j \in DOMAIN CondPairs(call.keys, call.values), r \in Returned :
            r[CondPairs(call.keys, call.values)[j].field] # Absent

\* C9 as amended: a field that a row lacks counts as None.  A returned row
\* lacks a field of the condition only where the expected value is None or a
\* collection holding None; and filter on one field with such an expected
\* value keeps every row that lacks the field.
C9_MissingFieldCountsAsNone ==
    IsQuery /\ call.status = "ok" =>
        LET pairs == CondPairs(call.keys, call.values)
        IN  /\ \A j \in DOMAIN pairs, r \in Returned :
                  r[pairs[j].field] = Absent => AdmitsNone(pairs[j].value)
            /\ call.op = "filter" /\ Len(pairs) = 1 /\ AdmitsNone(pairs[1].value) =>
                  \A i \in DOMAIN call.records :
                      call.records[i][pairs[1].field] = Absent => call.records[i] \in Returned

\* a filter for the value None that keeps a row without the field and drops
\* a row that has it
C9_Witness ==
    /\ call.op = "filter"
    /\ call.keys.kind = "str"
    /\ call.values = None
    /\ Len(call.records) = 2
    /\ call.records[1][call.keys.v] = Absent
    /\ call.records[2][call.keys.v] = Int1
    /\ call.result = ListObj(<<call.records[1]>>)

\* C10: with no field name and no value the condition holds of every row:
\* filter returns all the rows, find the first one, or default when there is
\* none.
C10_EmptyConditionMatchesAll ==
    IsQuery /\ call.keys = List(<<>>) /\ call.values = List(<<>>) =>
        /\ call.status = "ok"
        /\ call.op = "filter" => call.result = ListObj(call.records)
        /\ call.op = "find" =>
              call.result = IF call.records = <<>> THEN ValObj(call.default) ELSE RowObj(call.records[1])

\* a find with the empty condition over two different rows
C10_Witness ==
    /\ call.op = "find"
    /\ call.keys = List(<<>>) /\ call.values = List(<<>>)
    /\ Len(call.records) = 2
    /\ call.records[1] # call.records[2]
    /\ call.result = RowObj(call.records[1])

====
